---- MODULE Spec2Model ----
(***************************************************************************)
(* A model of the vigsi batch transforms: the driver main_cmd of           *)
(* geojson_transformer.py and of stats_builder.py, and the transform       *)
(* strategies they dispatch to (Aggregator, Csv, AddLatLonCoordinates,     *)
(* FixIncorrectStructure).  Every method of a transform is an operator     *)
(* from the object's fields and the output directory to the new fields,    *)
(* the new directory and the exception it raised, if any; the driver is a  *)
(* state machine whose position pc walks through main_cmd.                 *)
(***************************************************************************)
EXTENDS Integers, Sequences, FiniteSets, Bags, TLC

VARIABLES
    module,         \* which program runs: "geojson_transformer" or "stats_builder"
    op,             \* args.op
    interval_hours, \* args.interval_hours
    input_kind,     \* args.input is a "file", a "dir" or "neither"
    input_files,    \* the set of file names found under args.input
    input_shape,    \* "aligned": every group holds the same locations; "ragged"
    coords,         \* the grid the coordinate service answers with
    out_exists,     \* os.path.isdir(args.output)
    out,            \* the output directory: file name -> content
    pc,             \* position in main_cmd
    error,          \* the exception that ended the run, "" if none
    indexed_files,  \* main_cmd's indexed_files
    file_index,     \* number of files completed
    n_groups,       \* len(data) of the file being processed
    data_is_dict,   \* json.load gave a {"features": [...]} wrapper
    time_index,     \* number of groups of that file already appended
    transform,      \* the fields of the transform object
    log,            \* history: the bag of groups appended without error
    ordered,        \* history: instants were appended in non-decreasing order
    last_appended,  \* history: the last append's instant, duration and input
    opened,         \* history: number of input files opened
    spaced,         \* history: every file opened starts after the one before ends
    writes          \* history: the bag of file names written to the output dir

vars == <<module, op, interval_hours, input_kind, input_files, input_shape,
          coords, out_exists,
          out, pc, error, indexed_files, file_index, n_groups, data_is_dict,
          time_index,
          transform, log, ordered, last_appended, opened, spaced,
          writes>>

----------------------------------------------------------------------------
(* Bounds of the model. *)

\* most files under the input directory
MaxFiles == 2
\* most groups in one input file
MaxGroups == 2

----------------------------------------------------------------------------
(* Python values. *)

\* None, where the other values are tuples (datetimes, lists)
None == <<>>
\* an int-or-None value: None or a one-element tuple
Some(v) == <<v>>
Get(o) == o[1]

RECURSIVE Concat(_)
\* "".join(pieces)
Concat(pieces) ==
    IF pieces = <<>> THEN "" ELSE Head(pieces) \o Concat(Tail(pieces))

\* str.replace(old, "") on a string kept as its pieces
RemovePieces(pieces, old) == SelectSeq(pieces, LAMBDA p : p # old)

----------------------------------------------------------------------------
(* datetime: <<year, month, day, hour>>; minutes and seconds are always 0   *)
(* because every instant is epoch + a whole number of hours.                *)

IsLeap(y) == (y % 4 = 0 /\ y % 100 # 0) \/ y % 400 = 0

DaysInMonth(y, m) ==
    IF m = 2 THEN (IF IsLeap(y) THEN 29 ELSE 28)
    ELSE IF m \in {4, 6, 9, 11} THEN 30 ELSE 31

RECURSIVE AddDays(_, _, _, _)
\* the date n days after y-m-d
AddDays(y, m, d, n) ==
    IF d + n <= DaysInMonth(y, m) THEN <<y, m, d + n>>
    ELSE IF m = 12 THEN AddDays(y + 1, 1, 1, n - (DaysInMonth(y, m) - d + 1))
    ELSE AddDays(y, m + 1, 1, n - (DaysInMonth(y, m) - d + 1))

\* datetime(2007, 1, 1) + timedelta(hours=h)
EpochPlusHours(h) ==
    LET date == AddDays(2007, 1, 1, h \div 24)
    IN  <<date[1], date[2], date[3], h % 24>>

\* get_data_instant of geojson_transformer.py, of an int-or-None index:
\* None for None
get_data_instant(index) ==
    IF index = None THEN None ELSE EpochPlusHours(Get(index))

\* a < b on datetimes
DtLess(a, b) ==
    \E i \in 1..4 : a[i] < b[i] /\ \A j \in 1..(i - 1) : a[j] = b[j]

DtLeq(a, b) == a = b \/ DtLess(a, b)

Pad2(n) == IF n < 10 THEN "0" \o ToString(n) ELSE ToString(n)

\* datetime.isoformat(), as its pieces
IsoPieces(t) ==
    <<ToString(t[1]), "-", Pad2(t[2]), "-", Pad2(t[3]), "T",
      Pad2(t[4]), ":", "00", ":", "00">>

isoformat(t) == Concat(IsoPieces(t))

\* key.isoformat().replace(":", "") + ".000Z"
KeyFileName(key) == Concat(RemovePieces(IsoPieces(key), ":")) \o ".000Z"

\* timedelta(hours=h).total_seconds()
total_seconds(hours) == hours * 3600

----------------------------------------------------------------------------
(* File names: a name is the sequence of its characters.                    *)

Digits == <<"0", "1", "2", "3", "4", "5", "6", "7", "8", "9">>

IsDigit(c) == \E i \in 1..10 : Digits[i] = c

DigitValue(c) == (CHOOSE i \in 1..10 : Digits[i] = c) - 1

\* str.find: the 0-based position of the first c, -1 if there is none
Find(name, c) ==
    IF \E i \in 1..Len(name) : name[i] = c
    THEN (CHOOSE i \in 1..Len(name) :
              name[i] = c /\ \A j \in 1..(i - 1) : name[j] # c) - 1
    ELSE -1

\* int(text) parses: text is a non-empty run of digits
IntParses(text) == text # <<>> /\ \A i \in 1..Len(text) : IsDigit(text[i])

RECURSIVE IntOf(_)
\* int(text) of a run of digits
IntOf(text) ==
    IF text = <<>> THEN 0
    ELSE 10 * IntOf(SubSeq(text, 1, Len(text) - 1))
         + DigitValue(text[Len(text)])

\* main_cmd.get_start_index: the pair (filepath, start_index), or ValueError
get_start_index(filepath) ==
    IF Find(filepath, "-") < 0
    THEN [path |-> filepath, index |-> None, exc |-> ""]
    ELSE LET prefix == SubSeq(filepath, 1, Find(filepath, "-"))
         IN  IF IntParses(prefix)
             THEN [path |-> filepath, index |-> Some(IntOf(prefix)), exc |-> ""]
             ELSE [path |-> filepath, index |-> None, exc |-> "ValueError"]

RECURSIVE InsertByIndex(_, _)
\* insert pair after every element whose index is not greater (stable)
InsertByIndex(sorted, pair) ==
    IF sorted = <<>> THEN <<pair>>
    ELSE IF Get(pair.index) < Get(Head(sorted).index)
         THEN <<pair>> \o sorted
         ELSE <<Head(sorted)>> \o InsertByIndex(Tail(sorted), pair)

\* the characters of the file names, in code point order
Alphabet ==
    <<"-", "0", "1", "2", "3", "4", "5", "6", "7", "8", "9",
      "a", "b", "d", "e", "m", "r", "x">>

Ord(c) == CHOOSE i \in 1..Len(Alphabet) : Alphabet[i] = c

\* a < b on strings
LexLess(a, b) ==
    \/ Len(a) < Len(b) /\ \A j \in 1..Len(a) : a[j] = b[j]
    \/ \E i \in 1..(IF Len(a) < Len(b) THEN Len(a) ELSE Len(b)) :
          /\ Ord(a[i]) < Ord(b[i])
          /\ \A j \in 1..(i - 1) : a[j] = b[j]

RECURSIVE InsertByName(_, _)
InsertByName(sorted, pair) ==
    IF sorted = <<>> THEN <<pair>>
    ELSE IF LexLess(pair.path, Head(sorted).path)
         THEN <<pair>> \o sorted
         ELSE <<Head(sorted)>> \o InsertByName(Tail(sorted), pair)

RECURSIVE SortByName(_)
\* SortByIndex with the path for key: sorted(pairs), in file name order
SortByName(pairs) ==
    IF pairs = <<>> THEN <<>>
    ELSE InsertByName(SortByName(SubSeq(pairs, 1, Len(pairs) - 1)),
                      pairs[Len(pairs)])

RECURSIVE SortByIndex(_)
\* sorted(pairs, key=index_key) where every index is an int
SortByIndex(pairs) ==
    IF pairs = <<>> THEN <<>>
    ELSE InsertByIndex(SortByIndex(SubSeq(pairs, 1, Len(pairs) - 1)),
                       pairs[Len(pairs)])

\* list(sorted(map(get_start_index, files), key=index_key)): int() raises
\* ValueError on a prefix that is no number, and comparing a None index
\* raises TypeError as soon as there are two files
SortedIndexedFiles(files) ==
    LET pairs == [i \in 1..Len(files) |-> get_start_index(files[i])]
    IN  IF \E i \in 1..Len(pairs) : pairs[i].exc # ""
        THEN [files |-> <<>>, exc |-> "ValueError"]
        ELSE IF Len(pairs) >= 2 /\ \E i \in 1..Len(pairs) : pairs[i].index = None
        THEN [files |-> <<>>, exc |-> "TypeError"]
        ELSE IF Len(pairs) <= 1 THEN [files |-> pairs, exc |-> ""]
        ELSE [files |-> SortByIndex(pairs), exc |-> ""]

\* indexed_files = [(f, 0) for f in files], the fix transform's
ZeroIndexedFiles(files) ==
    [files |-> [i \in 1..Len(files) |->
                   [path |-> files[i], index |-> Some(0), exc |-> ""]],
     exc |-> ""]

\* os.path.basename(filepath), as a string
basename(filepath) == Concat(filepath)

----------------------------------------------------------------------------
(* Aggregator.__init__: the truncation and the property name per period.    *)

HOURLY == "hourly"
DAILY == "daily"
MONTHLY == "monthly"
YEARLY == "yearly"
AggregatorChoices == {HOURLY, DAILY, MONTHLY, YEARLY}

\* to_daily_key halving the hour where it should zero it
ToDailyKeyHalvingHour(instant) ==
    <<instant[1], instant[2], instant[3], instant[4] \div 2>>

to_hourly_key(instant) == <<instant[1], instant[2], instant[3], instant[4]>>
to_daily_key(instant) == <<instant[1], instant[2], instant[3], 0>>
to_monthly_key(instant) == <<instant[1], instant[2], 1, 0>>
to_yearly_key(instant) == <<instant[1], 1, 1, 0>>

to_key(period, instant) ==
    CASE period = HOURLY -> to_hourly_key(instant)
      [] period = DAILY -> to_daily_key(instant)
      [] period = MONTHLY -> to_monthly_key(instant)
      [] period = YEARLY -> to_yearly_key(instant)

\* self.type of geojson_transformer.Aggregator
EnergyType(period) ==
    CASE period = HOURLY -> "hourlyenergy"
      [] period = DAILY -> "energy"
      [] period = MONTHLY -> "monthlyenergy"
      [] period = YEARLY -> "yearlyenergy"

----------------------------------------------------------------------------
(* Features.  A feature is a GeoJSON object: its geometry (declared type    *)
(* and coordinates) and its property bag, a function from property names.   *)

Feature(x, y, props) ==
    [geometry |-> [type |-> "Point", coordinates |-> <<x, y>>],
     properties |-> props]

\* the property bag with name set to v: props[name] = v
SetProp(props, name, v) == (name :> v) @@ props

\* del props[name]
DelProp(props, name) == [k \in DOMAIN props \ {name} |-> props[k]]

\* a group of one feature per location, location i at grid cell (i - 1, 0)
GroupOf(ghis) ==
    [i \in 1..Len(ghis) |-> Feature(i - 1, 0, [ghi |-> ghis[i]])]

\* what a method returns: the object's fields, the output directory's files,
\* the names it wrote in order, and the exception it raised ("" for none)
Result(self, files, wrote, exc) ==
    [self |-> self, files |-> files, wrote |-> wrote, exc |-> exc]

----------------------------------------------------------------------------
(* geojson_transformer.Aggregator: one bucket in progress.                  *)

AggregatorInit == [last_key |-> None, data |-> None]

\* Aggregator.write
AggregatorWrite(self, exists, files) ==
    IF self.last_key # None
    THEN LET filename == KeyFileName(self.last_key)
         IN  IF ~exists
             THEN Result(self, files, <<>>, "FileNotFoundError")
             ELSE Result(self, (filename :> self.data) @@ files,
                         <<filename>>, "")
    ELSE Result(self, files, <<>>, "")

\* Integrate without the del of the raw value
IntegrateKeepingGhi(group, type, duration_sec) ==
    [i \in 1..Len(group) |->
        [group[i] EXCEPT !.properties =
            SetProp(@, type, @["ghi"] * duration_sec)]]

\* Integrate with the duration forgotten: the energy is the raw ghi
IntegrateWithoutDuration(group, type, duration_sec) ==
    [i \in 1..Len(group) |->
        [group[i] EXCEPT !.properties =
            DelProp(SetProp(@, type, @["ghi"]), "ghi")]]

\* the loop of Aggregator.append that integrates ghi over the duration
Integrate(group, type, duration_sec) ==
    [i \in 1..Len(group) |->
        [group[i] EXCEPT !.properties =
            DelProp(SetProp(@, type, @["ghi"] * duration_sec), "ghi")]]

\* MergeInto with = for +=: the last group's energy replaces the sum
MergeIntoOverwriting(bucket, group, type) ==
    [i \in 1..Len(bucket) |->
        IF i <= Len(group)
        THEN [bucket[i] EXCEPT !.properties[type] = group[i].properties[type]]
        ELSE bucket[i]]

\* MergeInto with -= for +=
MergeIntoSubtracting(bucket, group, type) ==
    [i \in 1..Len(bucket) |->
        IF i <= Len(group)
        THEN [bucket[i] EXCEPT !.properties[type] =
                 @ - group[i].properties[type]]
        ELSE bucket[i]]

\* MergeInto with the bucket cut to the length of the shorter list
MergeIntoTruncating(bucket, group, type) ==
    [i \in 1..(IF Len(group) < Len(bucket) THEN Len(group) ELSE Len(bucket)) |->
        [bucket[i] EXCEPT !.properties[type] =
            @ + group[i].properties[type]]]

\* for pair in zip(self.data, data): pair[0][type] += pair[1][type]
MergeInto(bucket, group, type) ==
    [i \in 1..Len(bucket) |->
        IF i <= Len(group)
        THEN [bucket[i] EXCEPT !.properties[type] =
                 @ + group[i].properties[type]]
        ELSE bucket[i]]

\* AggregatorAppend with the seeding moved before the flush: the write finds
\* the new key and the new group
AggregatorAppendSeedingFirst(self, period, exists, files, data_instant, duration, group) ==
    LET key == to_key(period, data_instant)
        duration_sec == total_seconds(duration)
        type == EnergyType(period)
    IN  IF \E i \in 1..Len(group) : "ghi" \notin DOMAIN group[i].properties
        THEN Result(self, files, <<>>, "KeyError")
        ELSE LET converted == Integrate(group, type, duration_sec)
                 seeded == [last_key |-> key, data |-> converted]
             IN  IF self.last_key # key
                 THEN LET w == AggregatorWrite(seeded, exists, files)
                      IN  IF w.exc # "" THEN w
                          ELSE Result(seeded, w.files, w.wrote, "")
                 ELSE Result([self EXCEPT !.data =
                                  MergeInto(self.data, converted, type)],
                             files, <<>>, "")

\* AggregatorAppend resuming a bucket it flushed before: a group whose key
\* already has a document is merged into that document's features
AggregatorAppendResuming(self, period, exists, files, data_instant, duration, group) ==
    LET key == to_key(period, data_instant)
        duration_sec == total_seconds(duration)
        type == EnergyType(period)
    IN  IF \E i \in 1..Len(group) : "ghi" \notin DOMAIN group[i].properties
        THEN Result(self, files, <<>>, "KeyError")
        ELSE LET converted == Integrate(group, type, duration_sec)
             IN  IF self.last_key # key
                 THEN LET w == AggregatorWrite(self, exists, files)
                          seed == IF KeyFileName(key) \in DOMAIN w.files
                                  THEN MergeInto(w.files[KeyFileName(key)],
                                                 converted, type)
                                  ELSE converted
                      IN  IF w.exc # "" THEN w
                          ELSE Result([last_key |-> key, data |-> seed],
                                      w.files, w.wrote, "")
                 ELSE Result([self EXCEPT !.data =
                                  MergeInto(self.data, converted, type)],
                             files, <<>>, "")

\* AggregatorAppend with the flush moved before the conversion: a group that
\* lacks a ghi fails after the previous bucket was written
AggregatorAppendFlushingFirst(self, period, exists, files, data_instant, duration, group) ==
    LET key == to_key(period, data_instant)
        duration_sec == total_seconds(duration)
        type == EnergyType(period)
        w == IF self.last_key # key THEN AggregatorWrite(self, exists, files)
             ELSE Result(self, files, <<>>, "")
    IN  IF w.exc # "" THEN w
        ELSE IF \E i \in 1..Len(group) : "ghi" \notin DOMAIN group[i].properties
        THEN Result(self, w.files, w.wrote, "KeyError")
        ELSE LET converted == Integrate(group, type, duration_sec)
             IN  IF self.last_key # key
                 THEN Result([last_key |-> key, data |-> converted],
                             w.files, w.wrote, "")
                 ELSE Result([self EXCEPT !.data =
                                  MergeInto(self.data, converted, type)],
                             files, <<>>, "")

\* Aggregator.append
AggregatorAppend(self, period, exists, files, data_instant, duration, group) ==
    LET key == to_key(period, data_instant)
        duration_sec == total_seconds(duration)
        type == EnergyType(period)
    IN  IF \E i \in 1..Len(group) : "ghi" \notin DOMAIN group[i].properties
        THEN Result(self, files, <<>>, "KeyError")
        ELSE LET converted == Integrate(group, type, duration_sec)
             IN  IF self.last_key # key
                 THEN LET w == AggregatorWrite(self, exists, files)
                      IN  IF w.exc # "" THEN w
                          ELSE Result([last_key |-> key, data |-> converted],
                                      w.files, w.wrote, "")
                 ELSE Result([self EXCEPT !.data =
                                  MergeInto(self.data, converted, type)],
                             files, <<>>, "")

----------------------------------------------------------------------------
(* stats_builder.Aggregator: a dictionary of all the buckets, written at    *)
(* the end.  The dict is its keys in insertion order and its values.        *)

\* the directory after the value of every key of a dict was written ("w")
\* to the key's file
WriteDict(files, d) ==
    LET names == [i \in 1..Len(d.keys) |-> KeyFileName(d.keys[i])]
    IN  [f \in DOMAIN files \cup {names[i] : i \in DOMAIN names} |->
            IF \E i \in DOMAIN names : names[i] = f
            THEN d.vals[d.keys[CHOOSE i \in DOMAIN names : names[i] = f]]
            ELSE files[f]]

SbAggregatorInit == [groups |-> [keys |-> <<>>, vals |-> <<>>]]

\* SbAggregatorAppend with the key's group replaced where it should be
\* merged into
SbAggregatorAppendReplacing(self, period, exists, files, data_instant, duration, group) ==
    LET key == to_key(period, data_instant)
        duration_sec == total_seconds(duration)
        d == self.groups
    IN  IF \E i \in 1..Len(group) : "ghi" \notin DOMAIN group[i].properties
        THEN Result(self, files, <<>>, "KeyError")
        ELSE LET converted == Integrate(group, "energy", duration_sec)
             IN  IF key \notin DOMAIN d.vals
                 THEN Result([groups |-> [keys |-> Append(d.keys, key),
                                           vals |-> (key :> converted) @@ d.vals]],
                             files, <<>>, "")
                 ELSE Result([groups |-> [d EXCEPT !.vals[key] = converted]],
                             files, <<>>, "")

\* stats_builder.Aggregator.append
SbAggregatorAppend(self, period, exists, files, data_instant, duration, group) ==
    LET key == to_key(period, data_instant)
        duration_sec == total_seconds(duration)
        d == self.groups
    IN  IF \E i \in 1..Len(group) : "ghi" \notin DOMAIN group[i].properties
        THEN Result(self, files, <<>>, "KeyError")
        ELSE LET converted == Integrate(group, "energy", duration_sec)
             IN  IF key \notin DOMAIN d.vals
                 THEN Result([groups |-> [keys |-> Append(d.keys, key),
                                           vals |-> (key :> converted) @@ d.vals]],
                             files, <<>>, "")
                 ELSE Result([groups |-> [d EXCEPT !.vals[key] =
                                  MergeInto(@, converted, "energy")]],
                             files, <<>>, "")

\* stats_builder.Aggregator.write
SbAggregatorWrite(self, exists, files) ==
    LET d == self.groups
    IN  IF d.keys = <<>> THEN Result(self, files, <<>>, "")
        ELSE IF ~exists THEN Result(self, files, <<>>, "FileNotFoundError")
        ELSE Result(self, WriteDict(files, d),
                    [i \in 1..Len(d.keys) |-> KeyFileName(d.keys[i])], "")

----------------------------------------------------------------------------
(* geojson_transformer.Csv: one series per location, flushed to the         *)
(* location's file at the end of every input file.  self.records is None    *)
(* or Some(list of lists).  A line of a location file is kept as its two    *)
(* cells, the instant standing for its isoformat() text.                    *)

CsvInit == [index_desc |-> <<>>, records |-> None]

\* Csv.Record(t, v)
Record(t, v) == [t |-> t, v |-> v]

\* Csv.Index(x, y)
Index(x, y) == [x |-> x, y |-> y]

\* str(location_index) + ".csv"
LocationFileName(location_index) == ToString(location_index) \o ".csv"

\* [[] for x in range(len(self.index_desc))]
EmptyRecords(index_desc) == [i \in 1..Len(index_desc) |-> <<>>]

\* the directory after every location's records were appended ("a") to its
\* file, a missing file starting empty
AppendRecords(files, records) ==
    LET names == {LocationFileName(i - 1) : i \in 1..Len(records)}
    IN  [f \in DOMAIN files \cup names |->
            IF f \in names
            THEN LET i == CHOOSE j \in 1..Len(records) :
                              LocationFileName(j - 1) = f
                 IN  (IF f \in DOMAIN files THEN files[f] ELSE <<>>)
                     \o records[i]
            ELSE files[f]]

LocationFileNames(records) ==
    [i \in 1..Len(records) |-> LocationFileName(i - 1)]

\* CsvEndFile without the reset of self.records after the flush
CsvEndFileKeepingRecords(self, exists, files) ==
    IF self.records = None
    THEN Result(self, files, <<>>, "TypeError")
    ELSE LET records == Get(self.records)
         IN  IF records # <<>> /\ ~exists
             THEN Result(self, files, <<>>, "FileNotFoundError")
             ELSE Result(self, AppendRecords(files, records),
                         LocationFileNames(records), "")

\* Csv.end_file
CsvEndFile(self, exists, files) ==
    IF self.records = None
    THEN Result(self, files, <<>>, "TypeError")
    ELSE LET records == Get(self.records)
         IN  IF records # <<>> /\ ~exists
             THEN Result(self, files, <<>>, "FileNotFoundError")
             ELSE Result([self EXCEPT
                              !.records = Some(EmptyRecords(self.index_desc))],
                         AppendRecords(files, records),
                         LocationFileNames(records), "")

\* CsvAppend with the index table rebuilt from every group
CsvAppendRebuildingIndex(self, data_instant, group) ==
    LET index_desc ==
            [i \in 1..Len(group) |->
                Index(group[i].geometry.coordinates[1],
                      group[i].geometry.coordinates[2])]
        records ==
            IF self.records = None \/ self.records = Some(<<>>)
            THEN EmptyRecords(index_desc)
            ELSE Get(self.records)
        Fails(i) == i > Len(records) \/ "ghi" \notin DOMAIN group[i].properties
        bad == {i \in 1..Len(group) : Fails(i)}
        first_bad == CHOOSE i \in bad : \A j \in bad : i <= j
        n_ok == IF bad = {} THEN Len(group) ELSE first_bad - 1
        appended ==
            [i \in 1..Len(records) |->
                IF i <= n_ok
                THEN Append(records[i],
                            Record(data_instant, group[i].properties["ghi"]))
                ELSE records[i]]
    IN  [self |-> [index_desc |-> index_desc, records |-> Some(appended)],
         exc |-> IF bad = {} THEN ""
                 ELSE IF first_bad > Len(records) THEN "IndexError"
                 ELSE "KeyError"]

\* Csv.append; an exception leaves the records of the earlier positions
\* appended
CsvAppend(self, data_instant, group) ==
    LET index_desc ==
            IF self.index_desc = <<>>
            THEN [i \in 1..Len(group) |->
                     Index(group[i].geometry.coordinates[1],
                           group[i].geometry.coordinates[2])]
            ELSE self.index_desc
        records ==
            IF self.records = None \/ self.records = Some(<<>>)
            THEN EmptyRecords(index_desc)
            ELSE Get(self.records)
        Fails(i) == i > Len(records) \/ "ghi" \notin DOMAIN group[i].properties
        bad == {i \in 1..Len(group) : Fails(i)}
        first_bad == CHOOSE i \in bad : \A j \in bad : i <= j
        n_ok == IF bad = {} THEN Len(group) ELSE first_bad - 1
        appended ==
            [i \in 1..Len(records) |->
                IF i <= n_ok
                THEN Append(records[i],
                            Record(data_instant, group[i].properties["ghi"]))
                ELSE records[i]]
    IN  [self |-> [index_desc |-> index_desc, records |-> Some(appended)],
         exc |-> IF bad = {} THEN ""
                 ELSE IF first_bad > Len(records) THEN "IndexError"
                 ELSE "KeyError"]

\* the content of index.csv
IndexDocument(index_desc) ==
    << <<"Location Index", "X", "Y">> >> \o
    [i \in 1..Len(index_desc) |-> <<i - 1, index_desc[i].x, index_desc[i].y>>]

\* Csv.write
CsvWrite(self, exists, files) ==
    IF ~exists THEN Result(self, files, <<>>, "FileNotFoundError")
    ELSE LET indexed == ("index.csv" :> IndexDocument(self.index_desc)) @@ files
         IN  IF self.records = None
             THEN Result(self, indexed, <<"index.csv">>, "TypeError")
             ELSE Result(self, AppendRecords(indexed, Get(self.records)),
                         <<"index.csv">> \o
                             LocationFileNames(Get(self.records)),
                         "")

----------------------------------------------------------------------------
(* AddLatLonCoordinates: grid is self.coords, grid[x + 1][y + 1] the        *)
(* [lat, lon] pair of cell (x, y).  cur_file_name is None or Some(name).    *)

AddLatLonInit == [cur_file_name |-> None, records |-> <<>>]

\* is_end(x) of append
is_end(grid, feature) ==
    LET xi == feature.geometry.coordinates[1]
        yi == feature.geometry.coordinates[2]
        max_xi == Len(grid)
        max_yi == Len(grid[1])
    IN  xi + 1 >= max_xi \/ yi + 1 >= max_yi

\* [pt[1], pt[0]]
SwapPair(pt) == <<pt[2], pt[1]>>

\* the four grid entries around cell (xi, yi): pt1, pt2, pt3, pt4
Corners(grid, xi, yi) ==
    <<grid[xi + 1][yi + 1], grid[xi + 2][yi + 1],
      grid[xi + 2][yi + 2], grid[xi + 1][yi + 2]>>

\* [[pt1, pt2, pt3, pt4, pt1]]
Ring(pts) == << <<pts[1], pts[2], pts[3], pts[4], pts[1]>> >>

\* geojson_transformer's geometry: each pair swapped
GtPolygon(grid, xi, yi) ==
    LET pts == Corners(grid, xi, yi)
    IN  Ring([i \in 1..4 |-> SwapPair(pts[i])])

\* stats_builder's geometry: the grid's pairs as they are
SbPolygon(grid, xi, yi) == Ring(Corners(grid, xi, yi))

\* geojson_transformer.AddLatLonCoordinates.append: data is one feature
AddLatLonAppend(self, grid, feature) ==
    IF is_end(grid, feature) THEN self
    ELSE LET xi == feature.geometry.coordinates[1]
             yi == feature.geometry.coordinates[2]
         IN  [self EXCEPT !.records =
                 Append(@, [feature EXCEPT !.geometry.coordinates =
                                GtPolygon(grid, xi, yi)])]

\* stats_builder.AddLatLonCoordinates.append: data is a group; the features
\* not at the end get their polygon, and the whole group is recorded
SbAddLatLonAppend(self, grid, group) ==
    [self EXCEPT !.records =
        Append(@, [i \in 1..Len(group) |->
                      IF is_end(grid, group[i]) THEN group[i]
                      ELSE [group[i] EXCEPT !.geometry.coordinates =
                               SbPolygon(grid,
                                         group[i].geometry.coordinates[1],
                                         group[i].geometry.coordinates[2])]])]

\* AddLatLonEndFile without the reset of self.records after the write
AddLatLonEndFileKeepingRecords(self, exists, files) ==
    IF ~exists THEN Result(self, files, <<>>, "FileNotFoundError")
    ELSE Result(self,
                (Get(self.cur_file_name) :> self.records) @@ files,
                <<Get(self.cur_file_name)>>, "")

\* AddLatLonCoordinates.end_file, the same in both programs
AddLatLonEndFile(self, exists, files) ==
    IF ~exists THEN Result(self, files, <<>>, "FileNotFoundError")
    ELSE Result([self EXCEPT !.records = <<>>],
                (Get(self.cur_file_name) :> self.records) @@ files,
                <<Get(self.cur_file_name)>>, "")

----------------------------------------------------------------------------
(* FixIncorrectStructure: records_by_date is a dict, its keys in insertion  *)
(* order and its values.  A time stamp is the sequence of its characters.   *)

FixInit == [records_by_date |-> [keys |-> <<>>, vals |-> <<>>]]

\* the three runs of characters around the two "-" of text, or <<>>
DateParts(text) ==
    LET dashes == {i \in 1..Len(text) : text[i] = "-"}
    IN  IF Cardinality(dashes) # 2 THEN <<>>
        ELSE LET a == CHOOSE i \in dashes : \A j \in dashes : i <= j
                 b == CHOOSE i \in dashes : \A j \in dashes : i >= j
             IN  <<SubSeq(text, 1, a - 1), SubSeq(text, a + 1, b - 1),
                   SubSeq(text, b + 1, Len(text))>>

\* datetime.strptime(text, '%Y-%m-%d') succeeds
DateParses(text) ==
    LET parts == DateParts(text)
    IN  /\ parts # <<>>
        /\ \A i \in 1..3 : IntParses(parts[i])
        /\ Len(parts[1]) = 4
        /\ Len(parts[2]) <= 2
        /\ Len(parts[3]) <= 2
        /\ IntOf(parts[2]) \in 1..12
        /\ IntOf(parts[3]) \in 1..DaysInMonth(IntOf(parts[1]), IntOf(parts[2]))

\* datetime.strptime(text, '%Y-%m-%d')
strptime(text) ==
    LET parts == DateParts(text)
    IN  <<IntOf(parts[1]), IntOf(parts[2]), IntOf(parts[3]), 0>>

\* FixAppend with the date's list replaced by the new record
FixAppendReplacingList(self, feature) ==
    IF "time_stamp" \notin DOMAIN feature.properties
    THEN [self |-> self, exc |-> "KeyError"]
    ELSE IF ~DateParses(feature.properties["time_stamp"])
    THEN [self |-> self, exc |-> "ValueError"]
    ELSE IF "ghi" \notin DOMAIN feature.properties
    THEN [self |-> self, exc |-> "KeyError"]
    ELSE LET date == strptime(feature.properties["time_stamp"])
             props == DelProp(feature.properties, "time_stamp")
             fixed == [geometry |-> [feature.geometry EXCEPT !.type = "Polygon"],
                       properties |->
                           DelProp(SetProp(props, "energy", props["ghi"]), "ghi")]
             d == self.records_by_date
         IN  [self |-> [records_by_date |->
                  IF date \in DOMAIN d.vals
                  THEN [d EXCEPT !.vals[date] = <<fixed>>]
                  ELSE [keys |-> Append(d.keys, date),
                        vals |-> (date :> <<fixed>>) @@ d.vals]],
              exc |-> ""]

\* FixIncorrectStructure.append: data is one feature
FixAppend(self, feature) ==
    IF "time_stamp" \notin DOMAIN feature.properties
    THEN [self |-> self, exc |-> "KeyError"]
    ELSE IF ~DateParses(feature.properties["time_stamp"])
    THEN [self |-> self, exc |-> "ValueError"]
    ELSE IF "ghi" \notin DOMAIN feature.properties
    THEN [self |-> self, exc |-> "KeyError"]
    ELSE LET date == strptime(feature.properties["time_stamp"])
             props == DelProp(feature.properties, "time_stamp")
             fixed == [geometry |-> [feature.geometry EXCEPT !.type = "Polygon"],
                       properties |->
                           DelProp(SetProp(props, "energy", props["ghi"]), "ghi")]
             d == self.records_by_date
         IN  [self |-> [records_by_date |->
                  IF date \in DOMAIN d.vals
                  THEN [d EXCEPT !.vals[date] = Append(@, fixed)]
                  ELSE [keys |-> Append(d.keys, date),
                        vals |-> (date :> <<fixed>>) @@ d.vals]],
              exc |-> ""]

\* FixIncorrectStructure.write
FixWrite(self, exists, files) ==
    LET d == self.records_by_date
    IN  IF d.keys = <<>> THEN Result(self, files, <<>>, "")
        ELSE IF ~exists THEN Result(self, files, <<>>, "FileNotFoundError")
        ELSE Result(self, WriteDict(files, d),
                    [i \in 1..Len(d.keys) |-> KeyFileName(d.keys[i])], "")

----------------------------------------------------------------------------
(* Dispatch: the transform main_cmd constructed, by args.op.                *)

GT == "geojson_transformer"
SB == "stats_builder"

CsvChoices == {"tocsv"}
AddLatLonChoices == {"addlatlon"}
FixChoices == {"fix"}

\* the constructor main_cmd calls for args.op; Csv and
\* FixIncorrectStructure want the output path to be a directory.
\* stats_builder.Csv keeps the same fields as geojson_transformer.Csv.
Construct(mod, choice, exists) ==
    CASE choice \in AggregatorChoices ->
            [self |-> IF mod = GT THEN AggregatorInit ELSE SbAggregatorInit,
             exc |-> ""]
      [] choice \in CsvChoices ->
            [self |-> CsvInit, exc |-> IF exists THEN "" ELSE "ValueError"]
      [] choice \in AddLatLonChoices ->
            [self |-> AddLatLonInit, exc |-> ""]
      [] choice \in FixChoices ->
            [self |-> FixInit, exc |-> IF exists THEN "" ELSE "ValueError"]

\* transform.start_file(path)
TransformStartFile(mod, choice, self, path) ==
    IF choice \in AddLatLonChoices
    THEN [self EXCEPT !.cur_file_name = Some(basename(path))]
    ELSE self

\* transform.append(group_instant, interval, data_group)
TransformAppend(mod, choice, self, exists, files, grid, data_instant, duration, group) ==
    CASE choice \in AggregatorChoices ->
            IF mod = GT
            THEN AggregatorAppend(self, choice, exists, files, data_instant,
                                  duration, group)
            ELSE SbAggregatorAppend(self, choice, exists, files, data_instant,
                                    duration, group)
      [] choice \in CsvChoices ->
            LET r == CsvAppend(self, data_instant, group)
            IN  Result(r.self, files, <<>>, r.exc)
      [] choice \in AddLatLonChoices ->
            Result(IF mod = GT THEN AddLatLonAppend(self, grid, group)
                   ELSE SbAddLatLonAppend(self, grid, group),
                   files, <<>>, "")
      [] choice \in FixChoices ->
            LET r == FixAppend(self, group)
            IN  Result(r.self, files, <<>>, r.exc)

\* TransformEndFile with an Aggregator that takes the end of a file for the
\* end of its bucket: it writes the bucket and starts afresh
TransformEndFileFlushing(mod, choice, self, exists, files) ==
    CASE choice \in AggregatorChoices ->
            LET w == AggregatorWrite(self, exists, files)
            IN  Result(AggregatorInit, w.files, w.wrote, w.exc)
      [] choice \in CsvChoices -> CsvEndFile(self, exists, files)
      [] choice \in AddLatLonChoices -> AddLatLonEndFile(self, exists, files)
      [] choice \in FixChoices -> Result(self, files, <<>>, "")

\* transform.end_file()
TransformEndFile(mod, choice, self, exists, files) ==
    CASE choice \in AggregatorChoices -> Result(self, files, <<>>, "")
      [] choice \in CsvChoices -> CsvEndFile(self, exists, files)
      [] choice \in AddLatLonChoices -> AddLatLonEndFile(self, exists, files)
      [] choice \in FixChoices -> Result(self, files, <<>>, "")

\* TransformWrite with the call after the loop left out
TransformWriteLeftOut(mod, choice, self, exists, files) ==
    Result(self, files, <<>>, "")

\* transform.write(); stats_builder.AddLatLonCoordinates has no write
TransformWrite(mod, choice, self, exists, files) ==
    CASE choice \in AggregatorChoices ->
            IF mod = GT THEN AggregatorWrite(self, exists, files)
            ELSE SbAggregatorWrite(self, exists, files)
      [] choice \in CsvChoices -> CsvWrite(self, exists, files)
      [] choice \in AddLatLonChoices ->
            Result(self, files, <<>>,
                   IF mod = GT THEN "" ELSE "AttributeError")
      [] choice \in FixChoices -> FixWrite(self, exists, files)

----------------------------------------------------------------------------
(* Inputs.                                                                  *)

\* the file names an input directory may hold
FileNames ==
    { <<"0", "-", "a">>, <<"1", "-", "a">>, <<"8", "7", "5", "9", "-", "a">>,
      <<"0", "-", "b">>, <<"r", "e", "a", "d", "m", "e">>, <<"x", "-", "1">> }

\* the listings of at most n names of a set, in any order
RECURSIVE Listings(_, _)
Listings(names, n) ==
    IF n = 0 THEN { <<>> }
    ELSE LET shorter == Listings(names, n - 1)
         IN  shorter \cup
             { Append(l, f) : l \in { k \in shorter : Len(k) = n - 1 },
                              f \in names }

Distinct(l) == \A i, j \in 1..Len(l) : i # j => l[i] # l[j]

\* the orders os.listdir may give the names of a set in
Orderings(names) ==
    { l \in Listings(names, Cardinality(names)) :
        Len(l) = Cardinality(names) /\ Distinct(l) }

\* a feature that lacks its ghi
NoGhiGroup == <<Feature(0, 0, [ghi |-> 10]), Feature(1, 0, [dni |-> 5])>>

\* the groups of a file whose groups are aligned: the same locations in the
\* same order
AlignedGroups == { GroupOf(<<10, 20>>), GroupOf(<<20, 10>>), NoGhiGroup }

\* the groups of a file that breaks the alignment: one may be a location
\* short, or hold no feature at all
RaggedGroups == { GroupOf(<<10, 20>>), GroupOf(<<10>>), GroupOf(<<>>) }

\* the features of a file of the coordinate enricher: cell (1, 0) has its
\* four corners in the grid, (2, 0) lacks x + 1 and (0, 1) lacks y + 1
GridFeatures ==
    { Feature(1, 0, [ghi |-> 10]), Feature(2, 0, [ghi |-> 10]),
      Feature(0, 1, [ghi |-> 10]) }

\* the groups of a file of stats_builder's coordinate enricher
GridGroups ==
    { <<Feature(0, 0, [ghi |-> 10]), Feature(2, 0, [ghi |-> 10])>>,
      <<Feature(1, 0, [ghi |-> 10])>>,
      <<Feature(0, 1, [ghi |-> 10]), Feature(1, 0, [ghi |-> 10])>> }

\* the features of a file of the structure fixer
StampedFeatures ==
    { Feature(0, 0, [ghi |-> 10, time_stamp |->
          <<"2", "0", "0", "7", "-", "0", "1", "-", "0", "1">>]),
      Feature(1, 0, [ghi |-> 20, time_stamp |->
          <<"2", "0", "0", "7", "-", "0", "1", "-", "0", "2">>]),
      Feature(1, 0, [ghi |-> 30, time_stamp |->
          <<"2", "0", "0", "7", "-", "0", "1", "-", "0", "1">>]),
      Feature(0, 0, [ghi |-> 10, time_stamp |->
          <<"2", "0", "0", "7", "/", "0", "1", "/", "0", "1">>]) }

\* what one element of a file's list may be, by program, transform and
\* whether the input keeps its groups aligned
InputPool(mod, choice, shape) ==
    CASE choice \in AggregatorChoices \cup CsvChoices ->
            IF shape = "aligned" THEN AlignedGroups ELSE RaggedGroups
      [] choice \in AddLatLonChoices ->
            IF mod = GT THEN GridFeatures ELSE GridGroups
      [] choice \in FixChoices -> StampedFeatures

\* --interval_hours
IntervalChoices == {1, 2}

\* the grid of [lat, lon] pairs: coords[x + 1][y + 1] is cell (x, y)
Grid ==
    << << <<40, 100>>, <<40, 101>> >>,
       << <<41, 102>>, <<41, 103>> >>,
       << <<42, 104>>, <<42, 105>> >> >>

\* a file left in the output directory by an earlier run
StaleFiles == ("old.json" :> <<>>)

NoFiles == <<>>

----------------------------------------------------------------------------
(* The driver, main_cmd.                                                    *)

\* an entry of the history of appends
Appended(data_instant, duration, group) ==
    [instant |-> data_instant, duration |-> duration, group |-> group]

\* the bag with every name of a sequence added
Written(bag, wrote) ==
    bag (+) [f \in {wrote[i] : i \in DOMAIN wrote} |->
                Cardinality({i \in DOMAIN wrote : wrote[i] = f})]

\* an uncaught exception ends the run, after the method that raised it left
\* the object as self and wrote the files named
Raise(exc, self, files, wrote) ==
    /\ pc' = "raised"
    /\ error' = exc
    /\ transform' = self
    /\ out' = files
    /\ writes' = Written(writes, wrote)
    /\ UNCHANGED <<indexed_files, file_index, n_groups, data_is_dict,
                   time_index, log, ordered, last_appended, opened, spaced>>

\* geojson_transformer.main_cmd up to the loop over the files
GtMain ==
    /\ pc = "start"
    /\ module = GT
    /\ UNCHANGED <<module, op, interval_hours, input_kind, input_files,
                   input_shape, coords, out_exists>>
    /\ IF input_kind = "neither"
       THEN Raise("UnboundLocalError", transform, out, <<>>)
       ELSE \E files \in Orderings(input_files) :
            LET ix == IF op \notin FixChoices
                      THEN SortedIndexedFiles(files)
                      ELSE ZeroIndexedFiles(files)
            IN  IF ix.exc # "" THEN Raise(ix.exc, transform, out, <<>>)
                ELSE IF ~out_exists \/ DOMAIN out # {}
                THEN /\ pc' = "exit"
                     /\ UNCHANGED <<out, error, indexed_files, file_index,
                                    n_groups, data_is_dict, time_index,
                                    transform, log, ordered, last_appended,
                                    opened, spaced, writes>>
                ELSE LET c == Construct(GT, op, out_exists)
                     IN  IF c.exc # "" THEN Raise(c.exc, transform, out, <<>>)
                         ELSE /\ pc' = "files"
                              /\ indexed_files' = ix.files
                              /\ transform' = c.self
                              /\ UNCHANGED <<out, error, file_index, n_groups,
                                             data_is_dict, time_index, log,
                                             ordered, last_appended, opened, spaced,
                                             writes>>

\* stats_builder.main_cmd up to the loop over the files: no check of the
\* output directory
SbMain ==
    /\ pc = "start"
    /\ module = SB
    /\ UNCHANGED <<module, op, interval_hours, input_kind, input_files,
                   input_shape, coords, out_exists>>
    /\ IF input_kind = "neither"
       THEN Raise("UnboundLocalError", transform, out, <<>>)
       ELSE \E files \in Orderings(input_files) :
            LET ix == SortedIndexedFiles(files)
            IN  IF ix.exc # "" THEN Raise(ix.exc, transform, out, <<>>)
                ELSE LET c == Construct(SB, op, out_exists)
                     IN  IF c.exc # "" THEN Raise(c.exc, transform, out, <<>>)
                         ELSE /\ pc' = "files"
                              /\ indexed_files' = ix.files
                              /\ transform' = c.self
                              /\ UNCHANGED <<out, error, file_index, n_groups,
                                             data_is_dict, time_index, log,
                                             ordered, last_appended, opened, spaced,
                                             writes>>

\* the head of the loop body: log the start time, open and load the file,
\* unwrap a {"features": ...} wrapper (geojson_transformer only), start_file
OpenFile ==
    /\ pc = "files"
    /\ file_index < Len(indexed_files)
    /\ UNCHANGED <<module, op, interval_hours, input_kind, input_files,
                   input_shape, coords, out_exists>>
    /\ LET f == indexed_files[file_index + 1]
       IN  IF module = SB /\ f.index = None
           THEN Raise("TypeError", transform, out, <<>>)
           ELSE /\ \E n \in 0..MaxGroups, is_dict \in BOOLEAN :
                      IF is_dict /\ module = SB
                      THEN n_groups' = 1 /\ data_is_dict' = TRUE
                      ELSE n_groups' = n /\ data_is_dict' = FALSE
                /\ time_index' = 0
                /\ opened' = opened + 1
                /\ spaced' =
                       (spaced /\
                        (file_index = 0
                         \/ Get(f.index)
                               >= Get(indexed_files[file_index].index)
                                  + n_groups))
                /\ transform' =
                       TransformStartFile(module, op, transform, f.path)
                /\ pc' = "groups"
                /\ UNCHANGED <<out, error, indexed_files, file_index, log,
                               ordered, last_appended, writes>>

\* one turn of the loop over the file's groups: transform.append
AppendGroup ==
    /\ pc = "groups"
    /\ time_index < n_groups
    /\ UNCHANGED <<module, op, interval_hours, input_kind, input_files,
                   input_shape, coords, out_exists>>
    /\ LET f == indexed_files[file_index + 1]
       IN  IF f.index = None \/ data_is_dict
           THEN Raise("TypeError", transform, out, <<>>)
           ELSE \E group \in InputPool(module, op, input_shape) :
                  LET group_instant ==
                          get_data_instant(Some(Get(f.index) + time_index))
                      r == TransformAppend(module, op, transform, out_exists,
                                           out, coords, group_instant,
                                           interval_hours, group)
                  IN  IF r.exc # "" THEN Raise(r.exc, r.self, r.files, r.wrote)
                      ELSE /\ transform' = r.self
                           /\ out' = r.files
                           /\ writes' = Written(writes, r.wrote)
                           /\ time_index' = time_index + 1
                           /\ log' = log (+) SetToBag(
                                  {Appended(group_instant, interval_hours,
                                            group)})
                           /\ ordered' = (ordered /\
                                  (last_appended = None
                                   \/ DtLeq(Get(last_appended).instant,
                                            group_instant)))
                           /\ last_appended' =
                                  Some(Appended(group_instant, interval_hours,
                                                group))
                           /\ UNCHANGED <<pc, error, indexed_files, file_index,
                                          n_groups, data_is_dict, opened, spaced>>

\* the end of the loop body: transform.end_file and the progress message
EndFile ==
    /\ pc = "groups"
    /\ time_index = n_groups
    /\ UNCHANGED <<module, op, interval_hours, input_kind, input_files,
                   input_shape, coords, out_exists>>
    /\ LET r == TransformEndFile(module, op, transform, out_exists, out)
       IN  IF r.exc # "" THEN Raise(r.exc, r.self, r.files, r.wrote)
           ELSE /\ transform' = r.self
                /\ out' = r.files
                /\ writes' = Written(writes, r.wrote)
                /\ file_index' = file_index + 1
                /\ pc' = "files"
                /\ UNCHANGED <<error, indexed_files, n_groups, data_is_dict,
                               time_index, log, ordered, last_appended, opened, spaced>>

\* after the loop: transform.write()
FinalWrite ==
    /\ pc = "files"
    /\ file_index = Len(indexed_files)
    /\ UNCHANGED <<module, op, interval_hours, input_kind, input_files,
                   input_shape, coords, out_exists>>
    /\ LET r == TransformWrite(module, op, transform, out_exists, out)
       IN  IF r.exc # "" THEN Raise(r.exc, r.self, r.files, r.wrote)
           ELSE /\ transform' = r.self
                /\ out' = r.files
                /\ writes' = Written(writes, r.wrote)
                /\ pc' = "done"
                /\ UNCHANGED <<error, indexed_files, file_index, n_groups,
                               data_is_dict, time_index, log, ordered,
                               last_appended, opened, spaced>>

\* the two Aggregators side by side: "both" runs the driver's loop once and
\* gives every group to geojson_transformer's Aggregator, transform.gt,
\* which writes to out, and to stats_builder's, transform.sb, which writes
\* to a directory of its own, transform.sb_out
BOTH == "both"

\* main_cmd up to the loop, constructing one Aggregator of each program over
\* an empty directory each
PairMain ==
    /\ pc = "start"
    /\ module = BOTH
    /\ op \in AggregatorChoices
    /\ UNCHANGED <<module, op, interval_hours, input_kind, input_files,
                   input_shape, coords, out_exists>>
    /\ IF input_kind = "neither"
       THEN Raise("UnboundLocalError", transform, out, <<>>)
       ELSE \E files \in Orderings(input_files) :
            LET ix == SortedIndexedFiles(files)
            IN  IF ix.exc # "" THEN Raise(ix.exc, transform, out, <<>>)
                ELSE IF ~out_exists \/ DOMAIN out # {}
                THEN /\ pc' = "exit"
                     /\ UNCHANGED <<out, error, indexed_files, file_index,
                                    n_groups, data_is_dict, time_index,
                                    transform, log, ordered, last_appended,
                                    opened, spaced, writes>>
                ELSE /\ pc' = "files"
                     /\ indexed_files' = ix.files
                     /\ transform' = [gt |-> AggregatorInit,
                                      sb |-> SbAggregatorInit,
                                      sb_out |-> NoFiles]
                     /\ UNCHANGED <<out, error, file_index, n_groups,
                                    data_is_dict, time_index, log, ordered,
                                    last_appended, opened, spaced, writes>>

\* one turn of the loop over the file's groups: the same instant, interval
\* and group appended to both Aggregators
PairAppend ==
    /\ pc = "groups"
    /\ module = BOTH
    /\ time_index < n_groups
    /\ UNCHANGED <<module, op, interval_hours, input_kind, input_files,
                   input_shape, coords, out_exists>>
    /\ LET f == indexed_files[file_index + 1]
       IN  IF f.index = None
           THEN Raise("TypeError", transform, out, <<>>)
           ELSE \E group \in InputPool(module, op, input_shape) :
                  LET group_instant ==
                          get_data_instant(Some(Get(f.index) + time_index))
                      g == AggregatorAppend(transform.gt, op, out_exists, out,
                                            group_instant, interval_hours,
                                            group)
                      b == SbAggregatorAppend(transform.sb, op, out_exists,
                                              transform.sb_out, group_instant,
                                              interval_hours, group)
                      pair == [gt |-> g.self, sb |-> b.self,
                               sb_out |-> b.files]
                  IN  IF g.exc # "" THEN Raise(g.exc, pair, g.files, g.wrote)
                      ELSE IF b.exc # ""
                      THEN Raise(b.exc, pair, g.files, g.wrote)
                      ELSE /\ transform' = pair
                           /\ out' = g.files
                           /\ writes' = Written(writes, g.wrote)
                           /\ time_index' = time_index + 1
                           /\ log' = log (+) SetToBag(
                                  {Appended(group_instant, interval_hours,
                                            group)})
                           /\ ordered' = (ordered /\
                                  (last_appended = None
                                   \/ DtLeq(Get(last_appended).instant,
                                            group_instant)))
                           /\ last_appended' =
                                  Some(Appended(group_instant, interval_hours,
                                                group))
                           /\ UNCHANGED <<pc, error, indexed_files, file_index,
                                          n_groups, data_is_dict, opened,
                                          spaced>>

\* after the loop: write() of both Aggregators
PairWrite ==
    /\ pc = "files"
    /\ module = BOTH
    /\ file_index = Len(indexed_files)
    /\ UNCHANGED <<module, op, interval_hours, input_kind, input_files,
                   input_shape, coords, out_exists>>
    /\ LET g == AggregatorWrite(transform.gt, out_exists, out)
           b == SbAggregatorWrite(transform.sb, out_exists, transform.sb_out)
           pair == [gt |-> g.self, sb |-> b.self, sb_out |-> b.files]
       IN  IF g.exc # "" THEN Raise(g.exc, pair, g.files, g.wrote)
           ELSE IF b.exc # "" THEN Raise(b.exc, pair, g.files, g.wrote)
           ELSE /\ transform' = pair
                /\ out' = g.files
                /\ writes' = Written(writes, g.wrote)
                /\ pc' = "done"
                /\ UNCHANGED <<error, indexed_files, file_index, n_groups,
                               data_is_dict, time_index, log, ordered,
                               last_appended, opened, spaced>>

\* a run of the two Aggregators side by side
NextPair == PairMain \/ OpenFile \/ PairAppend \/ EndFile \/ PairWrite

\* a run of geojson_transformer.py
NextGt == GtMain \/ OpenFile \/ AppendGroup \/ EndFile \/ FinalWrite

\* a run of either program
Next == GtMain \/ SbMain \/ OpenFile \/ AppendGroup \/ EndFile \/ FinalWrite

\* the state main_cmd starts in, for the given file names, programs and
\* operations
InitOver(names, mods, choices, intervals, shapes) ==
    /\ input_shape \in shapes
    /\ module \in mods
    /\ op \in choices
    /\ interval_hours \in intervals
    /\ input_kind \in {"file", "dir", "neither"}
    /\ input_files \in { fs \in SUBSET names : Cardinality(fs) <= MaxFiles }
    /\ input_kind = "file" => Cardinality(input_files) = 1
    /\ input_kind = "neither" => input_files = {}
    /\ coords = Grid
    /\ out_exists \in BOOLEAN
    /\ out \in {NoFiles, StaleFiles}
    /\ ~out_exists => out = NoFiles
    /\ pc = "start"
    /\ error = ""
    /\ indexed_files = <<>>
    /\ file_index = 0
    /\ n_groups = 0
    /\ data_is_dict = FALSE
    /\ time_index = 0
    /\ transform = None
    /\ log = EmptyBag
    /\ ordered = TRUE
    /\ last_appended = None
    /\ opened = 0
    /\ spaced = TRUE
    /\ writes = EmptyBag

\* the same over the file names of FileNames
InitFor(mods, choices, intervals, shapes) ==
    InitOver(FileNames, mods, choices, intervals, shapes)

InitAgg == InitFor({GT}, AggregatorChoices, IntervalChoices, {"aligned"})

\* the aggregation runs of geojson_transformer.py
SpecAgg == InitAgg /\ [][NextGt]_vars

InitBoth == InitFor({GT, SB}, {DAILY}, IntervalChoices, {"aligned"})

\* the daily aggregation runs of both programs
SpecBoth == InitBoth /\ [][Next]_vars

InitCsv == InitFor({GT}, CsvChoices, IntervalChoices, {"aligned"})

\* the CSV export runs of geojson_transformer.py
SpecCsv == InitCsv /\ [][NextGt]_vars

\* the fixer indexes every file 0, whatever its name: two names are enough
FixFileNames == { <<"0", "-", "a">>, <<"r", "e", "a", "d", "m", "e">> }

InitFix ==
    /\ InitFor({GT}, FixChoices, IntervalChoices, {"aligned"})
    /\ input_files \subseteq FixFileNames

\* the structure fixing runs of geojson_transformer.py
SpecFix == InitFix /\ [][NextGt]_vars

InitCsvRagged == InitFor({GT}, CsvChoices, IntervalChoices, {"ragged"})

\* the CSV export runs of geojson_transformer.py over groups of any length
SpecCsvRagged == InitCsvRagged /\ [][NextGt]_vars

\* daily merges the groups of a file, but for the file that starts at the
\* last hour of the year
InitAggRagged == InitFor({GT}, {DAILY}, {1}, {"ragged"})

\* the aggregation runs of geojson_transformer.py over groups of any length
SpecAggRagged == InitAggRagged /\ [][NextGt]_vars

InitEnrichGt == InitFor({GT}, AddLatLonChoices, IntervalChoices, {"aligned"})

\* the coordinate enrichment runs of geojson_transformer.py
SpecEnrichGt == InitEnrichGt /\ [][NextGt]_vars

InitAggCsv == InitFor({GT}, {DAILY} \cup CsvChoices, {1}, {"aligned"})

\* the daily aggregation and the CSV export runs of geojson_transformer.py
SpecAggCsv == InitAggCsv /\ [][NextGt]_vars

\* file names whose numeric order is not their lexicographic order
OrderFileNames ==
    { <<"0", "-", "a">>, <<"9", "-", "a">>, <<"1", "0", "-", "a">> }

InitOrder ==
    InitOver(OrderFileNames, {GT},
             {HOURLY} \cup CsvChoices \cup AddLatLonChoices,
             IntervalChoices, {"aligned"})

\* the runs of geojson_transformer.py that sort their files
SpecOrder == InitOrder /\ [][NextGt]_vars

InitPair == InitFor({BOTH}, AggregatorChoices, IntervalChoices, {"aligned"})

\* the runs of the two Aggregators over the same input
SpecPair == InitPair /\ [][NextPair]_vars

InitEnrich == InitFor({GT, SB}, AddLatLonChoices, IntervalChoices, {"aligned"})

\* the coordinate enrichment runs of both programs
SpecEnrich == InitEnrich /\ [][Next]_vars

----------------------------------------------------------------------------
(* What the history says.                                                   *)

\* the Time Keys of the groups appended
LogKeys == { to_key(op, e.instant) : e \in BagToSet(log) }

\* the entries of the history whose instant truncates to key
EntriesOf(key) == { e \in BagToSet(log) : to_key(op, e.instant) = key }

RECURSIVE EnergySum(_, _)
\* the sum, over the entries given, of ghi x duration in seconds at
\* position i, an entry appended n times counting n times
EnergySum(entries, i) ==
    IF entries = {} THEN 0
    ELSE LET e == CHOOSE x \in entries : TRUE
         IN  CopiesIn(e, log) * e.group[i].properties["ghi"] * e.duration * 3600
             + EnergySum(entries \ {e}, i)

\* every group appended holds the same number of locations
AlignedLog ==
    \A e1, e2 \in BagToSet(log) : Len(e1.group) = Len(e2.group)

\* the number of locations of the groups appended
Locations == { i \in 1..Len((CHOOSE e \in BagToSet(log) : TRUE).group) : TRUE }

\* the energies a bucket or document holds, by position
Energies(features) ==
    [i \in 1..Len(features) |-> features[i].properties[EnergyType(op)]]

\* the groups appended, counted
Appends == BagCardinality(log)

----------------------------------------------------------------------------
(* The streaming Aggregator.                                                *)

\* C1: in a completed run of geojson_transformer's Aggregator whose groups
\* were aligned and appended in non-decreasing instant order, the output
\* directory holds exactly one document per Time Key appended to, each
\* written exactly once, and feature i of the document of a key carries the
\* sum of ghi_i x duration_seconds over the groups appended under that key.
C1_OneDocumentPerKeyWithSummedEnergy ==
    (pc = "done" /\ ordered /\ AlignedLog) =>
        /\ DOMAIN out = { KeyFileName(key) : key \in LogKeys }
        /\ Cardinality(DOMAIN out) = Cardinality(LogKeys)
        /\ \A f \in DOMAIN out : CopiesIn(f, writes) = 1
        /\ \A key \in LogKeys :
              LET document == out[KeyFileName(key)]
              IN  /\ DOMAIN document = Locations
                  /\ \A i \in Locations :
                        Energies(document)[i] = EnergySum(EntriesOf(key), i)

\* a completed, ordered run that appended to two keys and merged two groups
\* into one of them
C1_Witness ==
    /\ pc = "done"
    /\ ordered
    /\ Cardinality(LogKeys) = 2
    /\ \E key \in LogKeys : Cardinality(EntriesOf(key)) >= 2

\* C2: when the driver has finished its loop and the final write, the bucket
\* that was in progress is in the output directory as it stood, and every
\* Time Key that received an append has a document.
C2_FinalBucketWritten ==
    pc = "done" =>
        /\ transform.last_key # None =>
              /\ KeyFileName(transform.last_key) \in DOMAIN out
              /\ out[KeyFileName(transform.last_key)] = transform.data
        /\ \A key \in LogKeys : KeyFileName(key) \in DOMAIN out

\* a completed run whose last bucket was written by the final write alone
C2_Witness ==
    /\ pc = "done"
    /\ transform.last_key # None
    /\ Cardinality(LogKeys) = 1
    /\ Appends >= 2

\* C3: opening a file (start_file) and finishing one (end_file) leave the
\* Aggregator's key and bucket as they were and write nothing.
C3_FileBoundaryKeepsBucket ==
    [][ ((pc = "files" /\ pc' = "groups") \/ (pc = "groups" /\ pc' = "files"))
        => (transform' = transform /\ out' = out /\ writes' = writes) ]_vars

\* the first group of a second file was merged into the bucket seeded from
\* the first file, and nothing was written in between
C3_Witness ==
    /\ pc = "groups"
    /\ file_index = 1
    /\ time_index = 1
    /\ Appends >= 2
    /\ writes = EmptyBag
    /\ \A i \in Locations :
          Energies(transform.data)[i] = EnergySum(BagToSet(log), i)

\* the two single-group files of the example: ghi [10, 20] at 00:00 and at
\* 01:00 of the first day, one-hour interval, daily period, run to its end
C5_Case ==
    /\ pc = "done"
    /\ op = DAILY
    /\ interval_hours = 1
    /\ input_files = { <<"0", "-", "a">>, <<"1", "-", "a">> }
    /\ log = SetToBag({ Appended(<<2007, 1, 1, 0>>, 1, GroupOf(<<10, 20>>)),
                        Appended(<<2007, 1, 1, 1>>, 1, GroupOf(<<10, 20>>)) })

\* C5 as stated: the flushed bucket of the example holds [36000, 72000].
C5_AsStated ==
    C5_Case => Energies(out[KeyFileName(<<2007, 1, 1, 0>>)]) = <<36000, 72000>>

\* C5, amended: the flushed bucket of the example holds [72000, 144000],
\* each location's ghi x 3600 summed over the two groups.
C5_DailyExample ==
    C5_Case =>
        /\ DOMAIN out = { KeyFileName(<<2007, 1, 1, 0>>) }
        /\ Energies(out[KeyFileName(<<2007, 1, 1, 0>>)]) = <<72000, 144000>>

\* C6: while the groups arrive in key order, the energies of the bucket in
\* progress are a function of the bag of aligned groups appended under its
\* key: whatever order they arrived in, position i holds their sum.
C6_MergeOrderIndependent ==
    (pc \in {"files", "groups", "done"} /\ ordered /\ AlignedLog
     /\ transform.last_key # None) =>
        \A i \in Locations :
            Energies(transform.data)[i]
                = EnergySum(EntriesOf(transform.last_key), i)

\* a bucket that merged the two different groups, in either order
C6_Witness ==
    /\ pc = "groups"
    /\ ordered
    /\ transform.last_key # None
    /\ \E e1, e2 \in EntriesOf(transform.last_key) :
          /\ e1.group = GroupOf(<<10, 20>>)
          /\ e2.group = GroupOf(<<20, 10>>)
          /\ DtLess(e1.instant, e2.instant)
    /\ Energies(transform.data) = <<30 * interval_hours * 3600,
                                    30 * interval_hours * 3600>>

----------------------------------------------------------------------------
(* The driver's preconditions.                                              *)

\* the output directory was missing or held a file when the run started
\* (no run removes a file)
OutputDirUnfit == ~out_exists \/ "old.json" \in DOMAIN out

\* C4: once a run that found its output directory missing or not empty has
\* left the start of main_cmd, it has ended with a non-zero status, with no
\* input file opened, no append made and nothing written.
C4_OutputDirPrecondition ==
    (OutputDirUnfit /\ pc # "start") =>
        /\ pc \in {"exit", "raised"}
        /\ opened = 0
        /\ log = EmptyBag
        /\ writes = EmptyBag

\* a name with no "-" or with something else than a number before it
Malformed(name) ==
    \/ \A i \in 1..Len(name) : name[i] # "-"
    \/ \E i \in 1..Len(name) :
          /\ name[i] = "-"
          /\ \A j \in 1..(i - 1) : name[j] # "-"
          /\ (i = 1 \/ \E j \in 1..(i - 1) : ~IsDigit(name[j]))

\* C10: a file whose name has no parseable numeric prefix never ends the
\* run: no run over such a file dies of the ValueError of int() or of the
\* TypeError of a None start index.
C10_MalformedNameNeverAborts ==
    (\E f \in input_files : Malformed(f)) =>
        ~(pc = "raised" /\ error \in {"TypeError", "ValueError"})

----------------------------------------------------------------------------
(* The CSV export.                                                          *)

\* the rows location i (from 1) has received: those in its file, then those
\* still in self.records
Series(i) ==
    (IF LocationFileName(i - 1) \in DOMAIN out
     THEN out[LocationFileName(i - 1)] ELSE <<>>)
    \o (IF transform.records # None /\ i <= Len(Get(transform.records))
        THEN Get(transform.records)[i] ELSE <<>>)

RECURSIVE CopiesSum(_)
\* how many appends the entries given stand for
CopiesSum(entries) ==
    IF entries = {} THEN 0
    ELSE LET e == CHOOSE x \in entries : TRUE
         IN  CopiesIn(e, log) + CopiesSum(entries \ {e})

\* location i has exactly one row per group appended: as many rows as
\* appends, and each (instant, ghi_i) as often as it was appended
OneRowPerGroup(i) ==
    /\ Len(Series(i)) = Appends
    /\ \A e \in BagToSet(log) :
          LET row == Record(e.instant, e.group[i].properties["ghi"])
          IN  Cardinality({k \in 1..Len(Series(i)) : Series(i)[k] = row})
                = CopiesSum({d \in BagToSet(log) :
                       Record(d.instant, d.group[i].properties["ghi"]) = row})

\* the rows of location i are in strictly increasing instant order
StrictlyIncreasing(i) ==
    \A k \in 1..(Len(Series(i)) - 1) :
        DtLess(Series(i)[k].t, Series(i)[k + 1].t)

\* the instants appended were strictly increasing
StrictlyOrdered ==
    /\ ordered
    /\ \A e \in BagToSet(log) : CopiesIn(e, log) = 1
    /\ \A e1, e2 \in BagToSet(log) : e1 # e2 => e1.instant # e2.instant

\* the rows of every location are in its file
AllFlushed ==
    \A i \in 1..Len(Get(transform.records)) : Get(transform.records)[i] = <<>>

\* C7 as stated: at the end of a run every location has one row per group
\* appended, in strictly increasing instant order.
C7_AsStated ==
    pc = "done" =>
        \A i \in 1..Len(transform.index_desc) :
            OneRowPerGroup(i) /\ StrictlyIncreasing(i)

\* C7, amended: between the appends of a run and at its end every location
\* has one row per group appended, none duplicated or lost by a flush, at
\* the end all in its file; the rows are in strictly increasing instant
\* order if the instants appended were strictly increasing.
C7_OneRowPerGroupInAppendOrder ==
    (pc \in {"files", "groups", "done"} /\ transform.records # None) =>
        /\ \A i \in 1..Len(transform.index_desc) :
              /\ OneRowPerGroup(i)
              /\ StrictlyOrdered => StrictlyIncreasing(i)
        /\ pc = "done" => AllFlushed

\* a completed run of two files that flushed rows at the end of each
C7_Witness ==
    /\ pc = "done"
    /\ StrictlyOrdered
    /\ Appends >= 3
    /\ Len(transform.index_desc) = 2
    /\ Len(Series(2)) >= 3

----------------------------------------------------------------------------
(* The coordinate enricher.                                                 *)

\* x + 1 or y + 1 is outside the grid
OutsideGrid(feature) ==
    LET c == feature.geometry.coordinates
    IN  c[1] + 1 > Len(coords) - 1 \/ c[2] + 1 > Len(coords[1]) - 1

\* the geometry still is the grid index of the input, not a ring
HasGridIndex(feature) == Len(feature.geometry.coordinates) = 2

\* C8: no feature whose grid index has x + 1 or y + 1 outside the grid is
\* in a document of the output directory, in either program.
C8_BoundaryFeaturesDropped ==
    \A f \in DOMAIN out : \A k \in 1..Len(out[f]) :
        IF module = GT
        THEN ~(HasGridIndex(out[f][k]) /\ OutsideGrid(out[f][k]))
        ELSE \A j \in 1..Len(out[f][k]) :
                ~(HasGridIndex(out[f][k][j]) /\ OutsideGrid(out[f][k][j]))

\* the grid's pair of cell (x, y), as [lon, lat]
LonLat(x, y) == <<coords[x + 1][y + 1][2], coords[x + 1][y + 1][1]>>

\* the closed ring around cell (x, y)
ExpectedRing(x, y) ==
    << <<LonLat(x, y), LonLat(x + 1, y), LonLat(x + 1, y + 1),
         LonLat(x, y + 1), LonLat(x, y)>> >>

\* the record of feature got the ring of the cell of input
RingOf(feature, input) ==
    feature.geometry.coordinates
        = ExpectedRing(input.geometry.coordinates[1],
                       input.geometry.coordinates[2])

\* C9: right after an append, every feature of the input whose cell has its
\* four corners in the grid is recorded with the closed ring
\* [pt1, pt2, pt3, pt4, pt1] of its cell, each pair as [lon, lat].
C9_PolygonOfSwappedCorners ==
    (pc = "groups" /\ time_index >= 1) =>
        LET input == Get(last_appended).group
            recorded == transform.records
        IN  IF module = GT
            THEN ~OutsideGrid(input) =>
                    /\ recorded # <<>>
                    /\ RingOf(recorded[Len(recorded)], input)
            ELSE \A j \in 1..Len(input) :
                    ~OutsideGrid(input[j]) =>
                        RingOf(recorded[Len(recorded)][j], input[j])

----------------------------------------------------------------------------
(* Instants and Time Keys.                                                  *)

\* C11: the group at position k of a file whose name gives start index s is
\* appended with instant epoch + (s + k) x interval, interval being
\* --interval_hours hours, whatever the interval.
C11_AbsoluteInstants ==
    (pc = "groups" /\ time_index >= 1) =>
        LET s == Get(indexed_files[file_index + 1].index)
            k == time_index - 1
        IN  Get(last_appended).instant
                = EpochPlusHours((s + k) * interval_hours)

\* C12: truncating a truncated instant gives the same Time Key, for each of
\* the four periods and every instant a group was appended with.
C12_TruncationIdempotent ==
    \A e \in BagToSet(log) : \A p \in AggregatorChoices :
        to_key(p, to_key(p, e.instant)) = to_key(p, e.instant)

\* a group was appended at 23:00 of the last day of 2007, which the daily,
\* the monthly and the yearly truncation all change
C12_Witness ==
    \E e \in BagToSet(log) :
        /\ e.instant = <<2007, 12, 31, 23>>
        /\ \A p \in {DAILY, MONTHLY, YEARLY} : to_key(p, e.instant) # e.instant
        /\ to_key(YEARLY, e.instant) # to_key(MONTHLY, e.instant)
        /\ to_key(MONTHLY, e.instant) # to_key(DAILY, e.instant)

----------------------------------------------------------------------------
(* The steps of Aggregator.append.                                          *)

\* a step of main_cmd in which transform.append returned
AppendStep == pc = "groups" /\ pc' = "groups" /\ time_index' = time_index + 1

\* C13: an append leaves every feature of its group in the bucket without
\* ghi and with, under the period's property name, ghi x the duration's
\* seconds added to what the bucket held at that position (to nothing when
\* the group seeds the bucket): the energy added is proportional to the
\* duration.
C13_EnergyConversion ==
    [][ AppendStep =>
        LET e == Get(last_appended')
            type == EnergyType(op)
            seeded == transform'.last_key # transform.last_key
        IN  \A i \in 1..Len(e.group) :
              LET props == transform'.data[i].properties
              IN  /\ "ghi" \notin DOMAIN props
                  /\ type \in DOMAIN props
                  /\ \A other \in AggregatorChoices :
                        other # op => EnergyType(other) \notin DOMAIN props
                  /\ props[type] =
                        (IF seeded THEN 0
                         ELSE transform.data[i].properties[type])
                        + e.group[i].properties["ghi"] * (e.duration * 3600)
      ]_vars

\* one group with ghi [10, 20] was appended with a two-hour interval: the
\* bucket holds twice the energies of a one-hour interval
C13_Witness ==
    /\ pc = "groups"
    /\ Appends = 1
    /\ interval_hours = 2
    /\ Get(last_appended).group = GroupOf(<<10, 20>>)
    /\ Energies(transform.data) = <<2 * 36000, 2 * 72000>>

----------------------------------------------------------------------------
(* The structure fixer.                                                     *)

\* the calendar date a feature's time_stamp names
DateOf(feature) == strptime(feature.properties["time_stamp"])

\* record is what the fixer keeps of feature: its cell and its value
RecordOf(record, feature) ==
    /\ record.geometry.coordinates = feature.geometry.coordinates
    /\ record.properties["energy"] = feature.properties["ghi"]
    /\ "time_stamp" \notin DOMAIN record.properties

\* C14: every append of the structure fixer adds the feature at the end of
\* the list of the date its time_stamp names and to no other list, whatever
\* file it came from and whatever was appended before; the final write makes
\* the output directory hold exactly one document per date, written once,
\* with that date's list.
C14_RegroupedByDate ==
    [][ /\ AppendStep =>
            LET feature == Get(last_appended').group
                date == DateOf(feature)
                before == transform.records_by_date.vals
                after == transform'.records_by_date.vals
                n == IF date \in DOMAIN before THEN Len(before[date]) ELSE 0
            IN  /\ DOMAIN after = DOMAIN before \cup {date}
                /\ \A x \in DOMAIN before \ {date} : after[x] = before[x]
                /\ Len(after[date]) = n + 1
                /\ \A i \in 1..n : after[date][i] = before[date][i]
                /\ RecordOf(after[date][n + 1], feature)
        /\ (pc = "files" /\ pc' = "done") =>
            LET lists == transform.records_by_date.vals
            IN  /\ DOMAIN out' = {KeyFileName(x) : x \in DOMAIN lists}
                /\ \A x \in DOMAIN lists :
                      /\ out'[KeyFileName(x)] = lists[x]
                      /\ CopiesIn(KeyFileName(x), writes') = 1
      ]_vars

\* a run wrote two documents: the first file gave one feature and the second
\* two, and the document of 2007-01-01 holds a feature of each file
C14_Witness ==
    /\ pc = "done"
    /\ opened = 2
    /\ time_index = 2
    /\ Appends = 3
    /\ DOMAIN out = {"2007-01-01T000000.000Z", "2007-01-02T000000.000Z"}
    /\ Len(out["2007-01-01T000000.000Z"]) = 2
    /\ out["2007-01-01T000000.000Z"][1].geometry.coordinates = <<1, 0>>
    /\ out["2007-01-01T000000.000Z"][2].geometry.coordinates = <<0, 0>>
    /\ Get(last_appended).group.geometry.coordinates = <<0, 0>>

----------------------------------------------------------------------------
(* The Location Index Table of the CSV exporter.                            *)

\* the (x, y) grid identifiers of a group's features, in the group's order
LocationsOf(group) ==
    [i \in 1..Len(group) |->
        [x |-> group[i].geometry.coordinates[1],
         y |-> group[i].geometry.coordinates[2]]]

\* the final write made index.csv of the table: a header and one row per
\* entry, numbered from 0
IndexFileOfTable ==
    (pc = "files" /\ pc' = "done") =>
        LET table == transform.index_desc
            rows == out'["index.csv"]
        IN  /\ transform'.index_desc = table
            /\ Len(rows) = 1 + Len(table)
            /\ \A i \in 1..Len(table) :
                  rows[i + 1] = <<i - 1, table[i].x, table[i].y>>

\* C15 as stated: the table is populated by the first group appended and no
\* step after that first append changes it; index.csv has one row per
\* location of that group.
C15_AsStated ==
    [][ /\ (AppendStep /\ Appends = 0) =>
            transform'.index_desc = LocationsOf(Get(last_appended').group)
        /\ Appends > 0 => transform'.index_desc = transform.index_desc
        /\ IndexFileOfTable
      ]_vars

\* C15: the table is populated by the first append that finds it empty,
\* which is the first append of a group that is not empty, and no append,
\* end_file or write changes a table that is not empty; index.csv has one
\* row per entry of the table.
C15_IndexTableFixedOnceNonEmpty ==
    [][ /\ (AppendStep /\ transform.index_desc = <<>>) =>
            transform'.index_desc = LocationsOf(Get(last_appended').group)
        /\ (pc \in {"files", "groups"} /\ transform.index_desc # <<>>) =>
            transform'.index_desc = transform.index_desc
        /\ IndexFileOfTable
      ]_vars

\* a run appended an empty group and then a group of two locations, and its
\* index.csv has the rows of the second group
C15_Witness ==
    /\ pc = "done"
    /\ Appends = 2
    /\ \E e \in BagToSet(log) : e.group = <<>>
    /\ Get(last_appended).group = GroupOf(<<10, 20>>)
    /\ out["index.csv"]
          = << <<"Location Index", "X", "Y">>, <<0, 0, 0>>, <<1, 1, 0>> >>

----------------------------------------------------------------------------
(* The bucket of the streaming Aggregator, step by step.                    *)

\* the Time Key of the group the step appended
AppendedKey == to_key(op, Get(last_appended').instant)

\* the energy the group the step appended brings to position i
AppendedEnergy(i) ==
    Get(last_appended').group[i].properties["ghi"]
        * (Get(last_appended').duration * 3600)

\* C16: an append whose key differs from the current key writes the previous
\* bucket, as it stood before the append, under the previous key, and nothing
\* else, and leaves the new group alone as the current bucket under the new
\* key; when there is no previous bucket (the first append) nothing is
\* written.
C16_FlushThenSeed ==
    [][ (AppendStep /\ AppendedKey # transform.last_key) =>
        /\ transform'.last_key = AppendedKey
        /\ Len(transform'.data) = Len(Get(last_appended').group)
        /\ \A i \in 1..Len(transform'.data) :
              transform'.data[i].properties[EnergyType(op)] = AppendedEnergy(i)
        /\ IF transform.last_key = None
           THEN out' = out /\ writes' = writes
           ELSE LET filename == KeyFileName(transform.last_key)
                IN  /\ DOMAIN out' = DOMAIN out \cup {filename}
                    /\ out'[filename] = transform.data
                    /\ \A f \in DOMAIN out \ {filename} : out'[f] = out[f]
                    /\ writes' = writes (+) SetToBag({filename})
      ]_vars

\* hourly, one-hour interval: the group [20, 10] of 01:00 arrived after the
\* group [10, 20] of 00:00; the document of 00:00 holds the first group's
\* energies and the bucket the second's
C16_Witness ==
    /\ pc = "groups"
    /\ op = HOURLY
    /\ interval_hours = 1
    /\ Appends = 2
    /\ writes = SetToBag({"2007-01-01T000000.000Z"})
    /\ Energies(out["2007-01-01T000000.000Z"]) = <<36000, 72000>>
    /\ transform.last_key = <<2007, 1, 1, 1>>
    /\ Energies(transform.data) = <<72000, 36000>>

\* C17: a same-key merge leaves the bucket's length, the order and geometry
\* of its features and every property but the energy as they were; it adds
\* to the energy at position i the energy of position i of the group, and
\* leaves the positions past the end of the group untouched.
C17_MergeKeepsAlignment ==
    [][ (AppendStep /\ AppendedKey = transform.last_key) =>
        LET bucket == transform.data
            merged == transform'.data
            group == Get(last_appended').group
            type == EnergyType(op)
        IN  /\ transform'.last_key = transform.last_key
            /\ Len(merged) = Len(bucket)
            /\ \A i \in 1..Len(bucket) :
                  /\ merged[i].geometry = bucket[i].geometry
                  /\ DOMAIN merged[i].properties = DOMAIN bucket[i].properties
                  /\ \A k \in DOMAIN bucket[i].properties \ {type} :
                        merged[i].properties[k] = bucket[i].properties[k]
                  /\ i <= Len(group) =>
                        merged[i].properties[type]
                            = bucket[i].properties[type] + AppendedEnergy(i)
                  /\ i > Len(group) => merged[i] = bucket[i]
      ]_vars

\* one-hour interval: a group of one location was merged into the bucket
\* seeded by the group [10, 20]; the second position kept its energy
C17_Witness ==
    /\ pc = "groups"
    /\ interval_hours = 1
    /\ Appends = 2
    /\ writes = EmptyBag
    /\ Get(last_appended).group = GroupOf(<<10>>)
    /\ Len(transform.data) = 2
    /\ Energies(transform.data) = <<36000 + 36000, 72000>>

\* the step ends the current bucket: an append under another key, or the
\* write after the last file
BucketEnds ==
    \/ AppendStep /\ AppendedKey # transform.last_key
    \/ pc = "files" /\ pc' = "done"

\* C18: when a group arrives under a key K that is not the current key and
\* whose bucket was flushed before (K, then another key, then K again), the
\* group alone seeds a new bucket under K and the document written earlier is
\* not merged in; when that bucket ends, the file of K is written once more,
\* with the later fragment only.
C18_OutOfOrderFragments ==
    [][ /\ ( /\ AppendStep
             /\ AppendedKey # transform.last_key
             /\ KeyFileName(AppendedKey) \in DOMAIN out ) =>
            /\ transform'.last_key = AppendedKey
            /\ Energies(transform'.data)
                  = [i \in 1..Len(Get(last_appended').group) |->
                        AppendedEnergy(i)]
        /\ ( /\ BucketEnds
             /\ transform.last_key # None
             /\ KeyFileName(transform.last_key) \in DOMAIN out ) =>
            LET filename == KeyFileName(transform.last_key)
            IN  /\ CopiesIn(filename, writes') = CopiesIn(filename, writes) + 1
                /\ CopiesIn(filename, writes') >= 2
                /\ out'[filename] = transform.data
      ]_vars

\* hourly, one-hour interval: groups arrived at 00:00, 01:00 and 00:00 again;
\* the file of 00:00 was written twice and holds the last group's energies
C18_Witness ==
    /\ pc = "done"
    /\ op = HOURLY
    /\ interval_hours = 1
    /\ Appends = 3
    /\ Get(last_appended).instant = <<2007, 1, 1, 0>>
    /\ CopiesIn("2007-01-01T000000.000Z", writes) = 2
    /\ CopiesIn("2007-01-01T010000.000Z", writes) = 1
    /\ \A i \in 1..2 :
          Energies(out["2007-01-01T000000.000Z"])[i]
              = Get(last_appended).group[i].properties["ghi"] * 3600

\* C20: an append of a group one of whose features lacks ghi never succeeds;
\* it ends the run with KeyError, leaving the output directory, the files
\* written and the in-progress bucket as they were, and nothing runs after
\* the failure: the bucket in progress is never written and the documents
\* flushed before stay as written.
C20_MissingGhiAborts ==
    /\ [](\A e \in BagToSet(log) : \A i \in 1..Len(e.group) :
              "ghi" \in DOMAIN e.group[i].properties)
    /\ [][ /\ (pc = "groups" /\ error' = "KeyError") =>
               /\ pc' = "raised"
               /\ out' = out
               /\ writes' = writes
               /\ transform' = transform
           /\ pc # "raised"
         ]_vars

\* a run failed on a group lacking ghi after it had flushed a bucket: the
\* flushed document is there and the bucket in progress has no document
C20_Witness ==
    /\ pc = "raised"
    /\ error = "KeyError"
    /\ Appends = 2
    /\ BagCardinality(writes) = 1
    /\ Cardinality(DOMAIN out) = 1
    /\ transform.last_key # None
    /\ KeyFileName(transform.last_key) \notin DOMAIN out

----------------------------------------------------------------------------
(* The coordinate enricher of geojson_transformer.py, file by file.         *)

\* C19: the record buffer is empty when a file is opened; an append adds the
\* feature, with its ring, at the end of the buffer, or nothing when the
\* feature is dropped; end_file writes the buffer as the document named by
\* the file's basename, touches no other document and empties the buffer: a
\* document holds exactly the features appended and kept between its file's
\* start_file and end_file, in arrival order.
C19_DocumentPerSourceFile ==
    [][ /\ (pc = "files" /\ pc' = "groups") => transform.records = <<>>
        /\ AppendStep =>
            LET feature == Get(last_appended').group
                before == transform.records
                after == transform'.records
            IN  IF OutsideGrid(feature) THEN after = before
                ELSE /\ Len(after) = Len(before) + 1
                     /\ SubSeq(after, 1, Len(before)) = before
                     /\ after[Len(after)].properties = feature.properties
                     /\ RingOf(after[Len(after)], feature)
        /\ (pc = "groups" /\ pc' = "files") =>
            LET name == basename(indexed_files[file_index + 1].path)
            IN  /\ DOMAIN out' = DOMAIN out \cup {name}
                /\ out'[name] = transform.records
                /\ \A f \in DOMAIN out \ {name} : out'[f] = out[f]
                /\ transform'.records = <<>>
      ]_vars

\* two files were processed and three features appended, one of them
\* dropped: each document holds the one feature kept from its own file
C19_Witness ==
    /\ pc = "files"
    /\ file_index = 2
    /\ Appends = 3
    /\ DOMAIN out = {"0-a", "1-a"}
    /\ Len(out["0-a"]) = 1
    /\ Len(out["1-a"]) = 1
    /\ transform.records = <<>>

----------------------------------------------------------------------------
(* What the output directory keeps of the energy appended.                  *)

RECURSIVE DocumentSum(_, _)
\* the sum, over the documents named, of the energy at position i
DocumentSum(names, i) ==
    IF names = {} THEN 0
    ELSE LET f == CHOOSE x \in names : TRUE
         IN  Energies(out[f])[i] + DocumentSum(names \ {f}, i)

\* C21: at the end of a run over aligned groups, in whatever order their
\* keys arrived, the energies of the output documents add up, per location,
\* to the sum of ghi x duration_seconds over all the groups appended, and no
\* document was written twice.
C21_NoFlushedEnergyLost ==
    (pc = "done" /\ AlignedLog /\ Appends > 0) =>
        /\ \A i \in Locations :
              DocumentSum(DOMAIN out, i) = EnergySum(BagToSet(log), i)
        /\ \A f \in DOMAIN out : CopiesIn(f, writes) = 1

----------------------------------------------------------------------------
(* Runs without a single group.                                             *)

\* the run was ended by an exception of end_file or of the final write, no
\* group having been appended or tried: the input directory was empty or
\* every file opened held an empty list
EmptyRunRaised ==
    /\ pc = "raised"
    /\ error # "UnboundLocalError"
    /\ Appends = 0
    /\ n_groups = 0
    /\ opened >= 1 \/ (input_kind = "dir" /\ input_files = {})

\* C24: a run of the Aggregator or of the Csv transform in which no group is
\* appended is not ended by an exception of end_file or write, and when it
\* is done the output directory holds no bucket document and no data row.
C24_EmptyInputTerminates ==
    /\ ~EmptyRunRaised
    /\ (pc = "done" /\ Appends = 0) =>
          \A f \in DOMAIN out : f = "index.csv" /\ Len(out[f]) = 1

----------------------------------------------------------------------------
(* The order the driver feeds the files in.                                 *)

\* C22: but for fix, main_cmd processes all the input files in ascending
\* order of the number their name starts with; and as long as every file
\* opened starts at or after the start index of the file before plus that
\* file's number of groups, every append comes with an instant later than
\* the one before.
C22_FedInIndexOrder ==
    /\ []( (pc \in {"files", "groups", "done"} /\ op \notin FixChoices) =>
             /\ {indexed_files[i].path : i \in 1..Len(indexed_files)}
                   = input_files
             /\ Len(indexed_files) = Cardinality(input_files)
             /\ \A i, j \in 1..Len(indexed_files) :
                   i < j => Get(indexed_files[i].index)
                                <= Get(indexed_files[j].index) )
    /\ [][ (AppendStep /\ spaced /\ last_appended # None) =>
              DtLess(Get(last_appended).instant, Get(last_appended').instant)
         ]_vars

\* the files 9-a and 10-a, one group each, were fed in that order, which is
\* not the order of their names, with the instants 09:00 and 10:00
C22_Witness ==
    /\ pc = "done"
    /\ op \notin FixChoices
    /\ Len(indexed_files) = 2
    /\ indexed_files[1].path = <<"9", "-", "a">>
    /\ indexed_files[2].path = <<"1", "0", "-", "a">>
    /\ LexLess(indexed_files[2].path, indexed_files[1].path)
    /\ spaced
    /\ Appends = 2
    /\ time_index = 1
    /\ Get(last_appended).instant = <<2007, 1, 1, 10>>

----------------------------------------------------------------------------
(* The two Aggregators over the same input.                                 *)

\* the documents agree: the same features in the same order with the same
\* geometry, and the energy of the one under the period's property name the
\* energy of the other under "energy"
SameDocument(streamed, collected) ==
    /\ Len(streamed) = Len(collected)
    /\ \A i \in 1..Len(streamed) :
          /\ streamed[i].geometry = collected[i].geometry
          /\ "ghi" \notin DOMAIN streamed[i].properties
          /\ "ghi" \notin DOMAIN collected[i].properties
          /\ streamed[i].properties[EnergyType(op)]
                = collected[i].properties["energy"]

\* C23: after a run that appended aligned groups in non-decreasing instant
\* order to both, the directory of geojson_transformer's Aggregator and the
\* directory of stats_builder's hold documents of the same Time Keys, and
\* the documents of a key agree position by position.
C23_AggregatorsAgree ==
    (pc = "done" /\ ordered /\ AlignedLog) =>
        /\ DOMAIN out = DOMAIN transform.sb_out
        /\ \A f \in DOMAIN out : SameDocument(out[f], transform.sb_out[f])

\* hourly: three groups at 00:00, 01:00 and 01:00 went to both Aggregators;
\* both directories hold the two hours' documents, the second merged
C23_Witness ==
    /\ pc = "done"
    /\ op = HOURLY
    /\ interval_hours = 1
    /\ ordered
    /\ Appends = 3
    /\ DOMAIN out = {"2007-01-01T000000.000Z", "2007-01-01T010000.000Z"}
    /\ DOMAIN transform.sb_out = DOMAIN out
    /\ Cardinality(EntriesOf(<<2007, 1, 1, 1>>)) = 2
    /\ Energies(out["2007-01-01T010000.000Z"]) = <<3 * 36000, 3 * 36000>>
    /\ transform.sb_out["2007-01-01T010000.000Z"][1].properties["energy"]
          = 3 * 36000

====
